---- MODULE Spec2Model ----
(***************************************************************************)
(* Model of src/src/App.tsx: the useTheme hook (light/dark preference kept *)
(* in localStorage and mirrored on the document root) and the App          *)
(* component's IntersectionObserver effect (active section, reveal-on-     *)
(* scroll).  Ratios are percentages (0.25 is 25).                          *)
(*                                                                         *)
(* Spec          the page life cycle in every host environment (storage    *)
(*               readable or not, matchMedia / IntersectionObserver        *)
(*               present or not), theme toggles, reloads.                  *)
(* SpecBatch     a fully supporting host, mounted once until the cleanup,  *)
(*               with the observer's callback delivering batches of up to  *)
(*               MaxBatch entries.                                         *)
(* SpecObserver  a fully supporting host with callbacks (batches of up to  *)
(*               MaxEventBatch entries), toggles, effect cleanup and       *)
(*               re-run.                                                   *)
(***************************************************************************)
EXTENDS Naturals, Sequences, FiniteSets

\* ------------------------------------------------------------- bounds
\* Reveal targets present in the document (the page has eleven).
MaxReveal == 2
\* Entries delivered to one invocation of the observer callback (SpecBatch).
MaxBatch == 2
\* The same, where callbacks interleave with toggles and re-initialization
\* (SpecObserver).
MaxEventBatch == 1
\* Observer objects alive or referenced at once.
MaxObservers == 3

\* ---------------------------------------------------------- constants
\* entry.intersectionRatio > 0.25
ActiveThreshold == 25

\* The sections in document order.
SectionOrder == <<"hero", "about", "skills", "projects", "contact">>
SectionIds == {SectionOrder[i] : i \in 1..Len(SectionOrder)}

\* localStorage.getItem returns null when the key is absent.
NoValue == "<null>"
\* Values the key 'theme' may hold when the page loads.
StoredValues == {NoValue, "", "light", "dark", "blue"}

NoObserver == 0
ObserverIds == 1..MaxObservers

\* The <section id=...> elements and the [data-reveal] elements.
\* node is the element's position among the observed elements.
SectionElements == {[node |-> i, tagName |-> "SECTION", id |-> SectionOrder[i], reveal |-> FALSE] : i \in 1..Len(SectionOrder)}
RevealElements == {[node |-> Len(SectionOrder) + n, tagName |-> "DIV", id |-> "", reveal |-> TRUE] : n \in 1..MaxReveal}
Elements == SectionElements \cup RevealElements

\* What one IntersectionObserverEntry reports: not intersecting (ratio 0),
\* or intersecting with the ratio at or beyond a threshold crossing.
Visibilities == {[isIntersecting |-> FALSE, ratio |-> 0], [isIntersecting |-> TRUE, ratio |-> 25], [isIntersecting |-> TRUE, ratio |-> 50]}
Entries == {[target |-> el, isIntersecting |-> v.isIntersecting, intersectionRatio |-> v.ratio] : el \in Elements, v \in Visibilities}
BatchesUpTo(k) == UNION {[1..n -> Entries] : n \in 1..k}

VARIABLES
    hasWindow,      \* typeof window !== 'undefined'
    storageAccess,  \* "ok" | "readonly" (setItem throws) | "denied" (every access throws)
    hasMatchMedia,  \* window.matchMedia exists
    hasObserver,    \* IntersectionObserver exists
    prefersDark,    \* matchMedia('(prefers-color-scheme: dark)').matches
    storage,        \* localStorage['theme']
    phase,          \* position in the component's life cycle
    error,          \* the exception that escaped, "none" if none
    isDark,         \* useTheme state
    themePending,   \* the [isDark] effect has not yet run for the current value
    rootDark,       \* document.documentElement has class 'dark'
    active,         \* App state
    shown,          \* nodes of the reveal elements carrying class 'show'
    connected,      \* observers that are observing (not disconnected)
    observerRef,    \* observerRef.current
    cleanupObs,     \* the observer captured by the effect's cleanup closure
    stored,         \* history: the value getItem returned at this load
    initialMode,    \* history: the mode resolved at this load
    parity,         \* history: number of toggles since this load, mod 2
    lastApplied,    \* history: the mode the theme effect last wrote, over all loads
    expected,       \* history: the id the last qualifying entry so far named
    everQualified,  \* history: some entry qualified since this load
    overlap,        \* history: the last batch had qualifying entries of two sections
    revisited       \* history: the shown targets the last batch reported as not intersecting

envVars == <<hasWindow, storageAccess, hasMatchMedia, hasObserver, prefersDark>>
themeVars == <<isDark, themePending, rootDark, storage>>
observerVars == <<active, shown, connected, observerRef, cleanupObs>>
themeHistory == <<stored, initialMode, parity, lastApplied>>
observerHistory == <<expected, everQualified, overlap, revisited>>
vars == <<envVars, phase, error, themeVars, observerVars, themeHistory, observerHistory>>

\* Phases in which the component is rendered in a document.
LivePhases == {"rendered", "reinit", "attaching", "mounted", "unmounted"}

\* ---------------------------------------------------------------- theme

\* if (stored): null and the empty string are falsy.
Truthy(s) == s \notin {NoValue, ""}

\* The useState initializer, lines 6-11.
ResolveInitialEnvFirst(win, access, st, mm, pd) ==
    IF ~win THEN [err |-> "none", mode |-> FALSE]
    ELSE IF access = "denied" THEN [err |-> "SecurityError", mode |-> FALSE]
    ELSE IF ~mm THEN [err |-> "TypeError", mode |-> FALSE]
    ELSE IF pd THEN [err |-> "none", mode |-> TRUE]
    ELSE [err |-> "none", mode |-> (st = "dark")]

ResolveInitial(win, access, st, mm, pd) ==
    IF ~win THEN [err |-> "none", mode |-> FALSE]
    ELSE IF access = "denied" THEN [err |-> "SecurityError", mode |-> FALSE]
    ELSE IF Truthy(st) THEN [err |-> "none", mode |-> (st = "dark")]
    ELSE IF ~mm THEN [err |-> "TypeError", mode |-> FALSE]
    ELSE [err |-> "none", mode |-> pd]

\* The string the effect writes under 'theme'.
ThemeStringSwapped(dark) == IF dark THEN "light" ELSE "dark"

ThemeString(dark) == IF dark THEN "dark" ELSE "light"

\* setIsDark((v) => !v)
ToggleModeStuck(v) == TRUE

ToggleMode(v) == ~v

\* ------------------------------------------------------------- observer

\* observer.disconnect(): no effect on an observer that is not connected.
DisconnectIgnored(conn, o) == conn

Disconnect(conn, o) == conn \ {o}

\* observerRef.current?.disconnect()
DisconnectRef(conn, ref) == IF ref = NoObserver THEN conn ELSE Disconnect(conn, ref)

\* Whether the callback calls setActive for the entry, lines 52-53.
SetsActiveAtThreshold(entry) ==
    /\ entry.target.tagName = "SECTION"
    /\ entry.target.id # ""
    /\ entry.isIntersecting
    /\ entry.intersectionRatio >= ActiveThreshold

SetsActive(entry) ==
    /\ entry.target.tagName = "SECTION"
    /\ entry.target.id # ""
    /\ entry.isIntersecting
    /\ entry.intersectionRatio > ActiveThreshold

\* The class 'show' after the callback handled the entry, lines 49-51.
RevealFollowsVisibility(shw, entry) ==
    IF entry.target.reveal
    THEN IF entry.isIntersecting THEN shw \cup {entry.target.node} ELSE shw \ {entry.target.node}
    ELSE shw

RevealAfter(shw, entry) ==
    IF entry.target.reveal /\ entry.isIntersecting
    THEN shw \cup {entry.target.node}
    ELSE shw

\* entries.forEach(...): the entries in delivery order; the setActive calls
\* of one callback are applied in order, so the last one stands.
RECURSIVE ProcessEntries(_, _, _)
ProcessEntries(entries, act, shw) ==
    IF entries = <<>> THEN [active |-> act, shown |-> shw]
    ELSE LET entry == Head(entries)
         IN ProcessEntries(Tail(entries),
                           IF SetsActive(entry) THEN entry.target.id ELSE act,
                           RevealAfter(shw, entry))

\* ------------------------------------------------- history (not the code)
\* Positions of the entries that report a section more than a quarter visible.
QualifyingAt(batch) ==
    {i \in 1..Len(batch) :
        /\ batch[i].target \in SectionElements
        /\ batch[i].isIntersecting
        /\ batch[i].intersectionRatio * 4 > 100}

LastQualifying(batch, before) ==
    LET q == QualifyingAt(batch)
    IN IF q = {} THEN before
       ELSE batch[CHOOSE i \in q : \A j \in q : j <= i].target.id

TwoSectionsQualify(batch) ==
    \E i, j \in QualifyingAt(batch) : batch[i].target.id # batch[j].target.id

\* The already shown reveal targets the batch reports as not intersecting.
HiddenAgain(batch, shw) ==
    {n \in shw : \E i \in 1..Len(batch) :
        /\ batch[i].target.reveal
        /\ batch[i].target.node = n
        /\ ~batch[i].isIntersecting}

\* ----------------------------------------------------------------- init

Init ==
    /\ hasWindow \in BOOLEAN
    /\ storageAccess \in {"ok", "readonly", "denied"}
    /\ hasMatchMedia \in BOOLEAN
    /\ hasObserver \in BOOLEAN
    /\ prefersDark \in BOOLEAN
    /\ storage \in StoredValues
    /\ phase = "unloaded"
    /\ error = "none"
    /\ isDark = FALSE
    /\ themePending = FALSE
    /\ rootDark = FALSE
    /\ active = "hero"
    /\ shown = {}
    /\ connected = {}
    /\ observerRef = NoObserver
    /\ cleanupObs = NoObserver
    /\ stored = NoValue
    /\ initialMode = FALSE
    /\ parity = 0
    /\ lastApplied = "none"
    /\ expected = "hero"
    /\ everQualified = FALSE
    /\ overlap = FALSE
    /\ revisited = {}

\* A first visit in a browser that supports everything the page uses.
InitObserver ==
    /\ Init
    /\ hasWindow
    /\ storageAccess = "ok"
    /\ hasMatchMedia
    /\ hasObserver
    /\ storage = NoValue

\* The same, in an environment that prefers light.
InitBatch ==
    /\ InitObserver
    /\ ~prefersDark

\* -------------------------------------------------------------- actions

\* First render in a browser: both useState initializers run.
Load ==
    /\ phase = "unloaded"
    /\ hasWindow
    /\ LET r == ResolveInitial(hasWindow, storageAccess, storage, hasMatchMedia, prefersDark)
       IN /\ r.err = "none"
          /\ isDark' = r.mode
          /\ initialMode' = r.mode
    /\ stored' = storage
    /\ themePending' = TRUE
    /\ phase' = "rendered"
    /\ active' = "hero"
    /\ expected' = "hero"
    /\ parity' = 0
    /\ UNCHANGED <<envVars, error, rootDark, storage, shown, connected, observerRef, cleanupObs>>
    /\ UNCHANGED <<lastApplied, everQualified, overlap, revisited>>

\* Render without a window (line 7): light, and no effect ever runs.
LoadStatic ==
    /\ phase = "unloaded"
    /\ ~hasWindow
    /\ isDark' = ResolveInitial(hasWindow, storageAccess, storage, hasMatchMedia, prefersDark).mode
    /\ initialMode' = isDark'
    /\ phase' = "static"
    /\ UNCHANGED <<envVars, error, themePending, rootDark, storage, observerVars>>
    /\ UNCHANGED <<stored, parity, lastApplied, observerHistory>>

\* localStorage.getItem or window.matchMedia throws inside the initializer:
\* nothing catches it and the render fails.
LoadThrows ==
    /\ phase = "unloaded"
    /\ LET r == ResolveInitial(hasWindow, storageAccess, storage, hasMatchMedia, prefersDark)
       IN /\ r.err # "none"
          /\ error' = r.err
    /\ phase' = "crashed"
    /\ UNCHANGED <<envVars, themeVars, observerVars, themeHistory, observerHistory>>

\* The [isDark] effect, lines 13-22.
ThemeEffect ==
    /\ phase \in {"rendered", "reinit", "mounted"}
    /\ themePending
    /\ storageAccess = "ok"
    /\ rootDark' = isDark
    /\ storage' = ThemeString(isDark)
    /\ lastApplied' = ThemeString(isDark)
    /\ themePending' = FALSE
    /\ phase' = IF phase = "mounted" THEN "mounted" ELSE "attaching"
    /\ UNCHANGED <<envVars, error, isDark, observerVars, stored, initialMode, parity, observerHistory>>

\* The same effect where setItem throws: the class is already changed, the
\* exception escapes the effect and React removes the tree (running the
\* observer effect's cleanup if it was set up).
ThemeEffectThrows ==
    /\ phase \in {"rendered", "reinit", "mounted"}
    /\ themePending
    /\ storageAccess = "readonly"
    /\ rootDark' = isDark
    /\ error' = "QuotaExceededError"
    /\ phase' = "crashed"
    /\ connected' = DisconnectRef(connected, cleanupObs)
    /\ UNCHANGED <<envVars, isDark, themePending, storage, active, shown, observerRef, cleanupObs>>
    /\ UNCHANGED <<themeHistory, observerHistory>>

\* The [] effect, lines 40-65: dispose the previous observer, create one,
\* observe every section and reveal element, keep it in the ref.
ObserverEffect ==
    /\ phase = "attaching"
    /\ hasObserver
    /\ \E o \in ObserverIds :
        /\ o \notin connected \cup {observerRef, cleanupObs}
        /\ \A p \in ObserverIds : p < o => p \in connected \cup {observerRef, cleanupObs}
        /\ connected' = DisconnectRef(connected, observerRef) \cup {o}
        /\ observerRef' = o
        /\ cleanupObs' = o
    /\ phase' = "mounted"
    /\ UNCHANGED <<envVars, error, themeVars, active, shown, themeHistory, observerHistory>>

\* The same effect where IntersectionObserver is not defined: line 45 throws.
ObserverEffectThrows ==
    /\ phase = "attaching"
    /\ ~hasObserver
    /\ connected' = DisconnectRef(connected, observerRef)
    /\ error' = "ReferenceError"
    /\ phase' = "crashed"
    /\ UNCHANGED <<envVars, themeVars, active, shown, observerRef, cleanupObs, themeHistory, observerHistory>>

\* A toggle that also sets the observer up anew.
ToggleReattach ==
    /\ phase = "mounted"
    /\ isDark' = ~isDark
    /\ themePending' = TRUE
    /\ parity' = (parity + 1) % 2
    /\ \E o \in ObserverIds :
        /\ o \notin connected \cup {observerRef, cleanupObs}
        /\ connected' = (connected \ {observerRef}) \cup {o}
        /\ observerRef' = o
        /\ cleanupObs' = o
    /\ UNCHANGED <<envVars, phase, error, rootDark, storage, active, shown>>
    /\ UNCHANGED <<stored, initialMode, lastApplied, observerHistory>>

\* onClick of the theme button, line 99.
Toggle ==
    /\ phase = "mounted"
    /\ isDark' = ToggleMode(isDark)
    /\ themePending' = TRUE
    /\ parity' = (parity + 1) % 2
    /\ UNCHANGED <<envVars, phase, error, rootDark, storage, observerVars>>
    /\ UNCHANGED <<stored, initialMode, lastApplied, observerHistory>>

\* The observer's callback, lines 46-58, run for one batch of entries.
Deliver(o, batch) ==
    /\ o \in connected
    /\ LET r == ProcessEntries(batch, active, shown)
       IN /\ active' = r.active
          /\ shown' = r.shown
    /\ expected' = LastQualifying(batch, expected)
    /\ everQualified' = (everQualified \/ QualifyingAt(batch) # {})
    /\ overlap' = TwoSectionsQualify(batch)
    /\ revisited' = HiddenAgain(batch, shown)
    /\ UNCHANGED <<envVars, phase, error, themeVars, connected, observerRef, cleanupObs, themeHistory>>

Callback ==
    \E o \in connected : \E batch \in BatchesUpTo(MaxBatch) : Deliver(o, batch)

CallbackEvent ==
    \E o \in connected : \E batch \in BatchesUpTo(MaxEventBatch) : Deliver(o, batch)

\* The effect's cleanup, line 66.  State, ref and document are kept, as when
\* React re-runs effects (StrictMode, Fast Refresh).
Unmount ==
    /\ phase = "mounted"
    /\ connected' = DisconnectRef(connected, cleanupObs)
    /\ cleanupObs' = NoObserver
    /\ phase' = "unmounted"
    /\ UNCHANGED <<envVars, error, themeVars, active, shown, observerRef, themeHistory, observerHistory>>

\* The effects run again after a cleanup.
Remount ==
    /\ phase = "unmounted"
    /\ themePending' = TRUE
    /\ phase' = "reinit"
    /\ UNCHANGED <<envVars, error, isDark, rootDark, storage, observerVars, themeHistory, observerHistory>>

\* The page is left and loaded again: a new document, the same storage.
Reload ==
    /\ phase # "unloaded"
    /\ phase' = "unloaded"
    /\ error' = "none"
    /\ isDark' = FALSE
    /\ themePending' = FALSE
    /\ rootDark' = FALSE
    /\ active' = "hero"
    /\ shown' = {}
    /\ connected' = {}
    /\ observerRef' = NoObserver
    /\ cleanupObs' = NoObserver
    /\ stored' = NoValue
    /\ initialMode' = FALSE
    /\ parity' = 0
    /\ expected' = "hero"
    /\ everQualified' = FALSE
    /\ overlap' = FALSE
    /\ revisited' = {}
    /\ UNCHANGED <<envVars, storage, lastApplied>>

\* The operating system's colour scheme changes.
EnvChange ==
    /\ prefersDark' = ~prefersDark
    /\ UNCHANGED <<hasWindow, storageAccess, hasMatchMedia, hasObserver>>
    /\ UNCHANGED <<phase, error, themeVars, observerVars, themeHistory, observerHistory>>

Next ==
    \/ Load
    \/ LoadStatic
    \/ LoadThrows
    \/ ThemeEffect
    \/ ThemeEffectThrows
    \/ ObserverEffect
    \/ ObserverEffectThrows
    \/ Toggle
    \/ Unmount
    \/ Remount
    \/ Reload
    \/ EnvChange

Spec == Init /\ [][Next]_vars

NextBatch ==
    \/ Load
    \/ ThemeEffect
    \/ ObserverEffect
    \/ Callback
    \/ Unmount

SpecBatch == InitBatch /\ [][NextBatch]_vars

NextObserver ==
    \/ Load
    \/ ThemeEffect
    \/ ObserverEffect
    \/ Toggle
    \/ CallbackEvent
    \/ Unmount
    \/ Remount

SpecObserver == InitObserver /\ [][NextObserver]_vars

\* ---------------------------------------------------------------- claims

\* C1: whenever the theme effect has run for the current mode, the root
\* carries 'dark' exactly when the mode is dark and the key 'theme' holds
\* 'dark' for dark and 'light' for light.
ThemeConsistent ==
    (phase \in LivePhases /\ ~themePending) =>
        /\ rootDark <=> isDark
        /\ storage = (IF isDark THEN "dark" ELSE "light")

\* C1 witness: a load with nothing stored in an environment preferring dark
\* has ended with the dark class set and 'dark' stored.
SeededDarkApplied ==
    /\ phase = "mounted"
    /\ ~themePending
    /\ parity = 0
    /\ stored = NoValue
    /\ prefersDark
    /\ initialMode
    /\ isDark
    /\ rootDark
    /\ storage = "dark"

StoredChoiceWins ==
    [][(phase = "unloaded" /\ phase' = "rendered" /\ lastApplied # "none")
        => (isDark' <=> (lastApplied = "dark"))]_vars

\* C3 witness: light was applied, the environment prefers dark, and the
\* reloaded page resolved light.
ReloadKeepsChoice ==
    /\ phase = "rendered"
    /\ lastApplied = "light"
    /\ stored = "light"
    /\ prefersDark
    /\ hasMatchMedia
    /\ ~isDark

\* C4: a stored value that is neither 'light' nor 'dark' resolves as an
\* absent one does: dark exactly when the environment prefers dark.
MalformedTreatedAsAbsent ==
    [][(phase = "unloaded" /\ phase' = "rendered" /\ storage \notin {NoValue, "light", "dark"})
        => (isDark' <=> (hasMatchMedia /\ prefersDark))]_vars

\* C5: no failure of storage or of the colour-scheme query is surfaced.
StorageFailureSilent ==
    error \notin {"SecurityError", "TypeError", "QuotaExceededError"}

\* C6: within one document a reveal target that is shown stays shown.
RevealMonotonic ==
    [][phase' # "unloaded" => shown \subseteq shown']_vars

\* C6 witness: a shown target was reported as not intersecting and is shown.
ShownSurvivesHiding ==
    /\ revisited # {}
    /\ revisited \subseteq shown

\* C7: after each batch the active section is the id of the last entry that
\* reported a section intersecting with ratio above 0.25, unchanged when
\* there is none; it is one of the section ids, and hero until an entry
\* qualifies.
ActiveIsLastQualifying ==
    /\ active \in SectionIds
    /\ active = expected
    /\ ~everQualified => active = "hero"

\* C7 witness: a batch in which two sections qualified has been processed.
LastOfTwoWins ==
    /\ overlap
    /\ active = expected
    /\ active # "hero"

\* C8: at most one observer is connected, and only while mounted; the
\* previous one is disconnected by the time the ref changes; after the
\* cleanup nothing is connected and no step changes the active section or a
\* reveal state.
ScopedRegistration ==
    /\ [](/\ Cardinality(connected) <= 1
          /\ connected # {} => (connected = {observerRef} /\ phase = "mounted")
          /\ phase = "unmounted" => connected = {})
    /\ [][observerRef' # observerRef => observerRef \notin connected']_vars
    /\ [][(connected = {} /\ phase # "unloaded") => UNCHANGED <<active, shown>>]_vars

\* C8 witness: the effect ran again after a cleanup; the second observer is
\* the only one connected.
Reattached ==
    /\ phase = "mounted"
    /\ observerRef = 2
    /\ connected = {2}

\* C9: without IntersectionObserver the effect does not throw.
ObservationFailsSoft ==
    ~(phase = "crashed" /\ error = "ReferenceError")

\* C10: a step that changes the theme while mounted leaves the observer's
\* state alone, and a step that changes the active section or a reveal state
\* leaves the theme's state alone.
ThemeObserverIndependent ==
    /\ [][(/\ phase = "mounted"
           /\ phase' = "mounted"
           /\ <<isDark, themePending, rootDark, storage>>' # <<isDark, themePending, rootDark, storage>>)
            => UNCHANGED <<active, shown, connected, observerRef, cleanupObs>>]_vars
    /\ [][(active' # active \/ shown' # shown)
            => UNCHANGED <<isDark, themePending, rootDark, storage>>]_vars

\* C10 witness: toggled and applied, with a section activated and a target
\* revealed by the still connected observer.
ToggledWhileObserving ==
    /\ phase = "mounted"
    /\ parity = 1
    /\ ~themePending
    /\ active # "hero"
    /\ shown # {}
    /\ connected = {observerRef}

====
